---- MODULE Spec2Model ----
(***************************************************************************)
(* Model of src/adf.rs: the ADF document builder (DocumentBuilder,         *)
(* ParagraphBuilder, CodeBlockBuilder), the serde serialisation of the     *)
(* built Document, and the walk of from_markdown over the mdast tree       *)
(* returned by markdown::to_mdast.                                         *)
(***************************************************************************)
EXTENDS Integers, Sequences, FiniteSets, TLC

(***************************************************************************)
(* Bounds of the model.                                                    *)
(***************************************************************************)
\* largest number of mdast nodes below the root of an input tree
MaxNodes == 4
\* largest number of builder calls in a run of the builder API
MaxOps == 4

\* literal values of text and code nodes, link destinations, code languages
Values == {"a", "b"}
Urls == {"u", "v"}
Langs == {"", "rs"}
\* mdast node kinds outside the supported subset
OtherTopKinds == {"heading", "list"}
OtherInlineKinds == {"emphasis", "inlineCode"}

(***************************************************************************)
(* markdown::mdast::Node, as far as from_markdown reads it: the variant    *)
(* (kind), Text.value / Code.value, Link.url, Code.lang and the children   *)
(* of Paragraph and Link.                                                  *)
(***************************************************************************)
MdNode(k, v, u, l, cs) ==
    [kind |-> k, value |-> v, url |-> u, lang |-> l, children |-> cs]

MdText(v) == MdNode("text", v, "", "", <<>>)
MdOther(k) == MdNode(k, "", "", "", <<>>)
MdLink(u, cs) == MdNode("link", "", u, "", cs)
MdCode(v, l) == MdNode("code", v, "", l, <<>>)
MdParagraph(cs) == MdNode("paragraph", "", "", "", cs)

\* all sequences over S of length at most n
SeqsUpTo(S, n) == UNION {[1..k -> S] : k \in 0..n}

\* the nodes a link may hold as children (phrasing content without links)
LinkKids == {MdText(v) : v \in Values} \cup {MdOther(k) : k \in OtherInlineKinds}

\* inline nodes made of exactly n mdast nodes
InlinesOfSize(n) ==
    IF n = 1
    THEN {MdText(v) : v \in Values} \cup {MdOther(k) : k \in OtherInlineKinds}
         \cup {MdLink(u, <<>>) : u \in Urls}
    ELSE {MdLink(u, cs) : u \in Urls, cs \in [1..(n - 1) -> LinkKids]}

\* sequences of inline nodes made of at most n mdast nodes in total
RECURSIVE InlineSeqs(_)
InlineSeqs(n) ==
    {<<>>} \cup UNION {{<<x>> \o s : x \in InlinesOfSize(k), s \in InlineSeqs(n - k)}
                       : k \in 1..n}

\* top-level nodes made of exactly n mdast nodes
TopsOfSize(n) ==
    IF n = 1
    THEN {MdParagraph(<<>>)} \cup {MdCode(v, l) : v \in Values, l \in Langs}
         \cup {MdOther(k) : k \in OtherTopKinds}
    ELSE {MdParagraph(cs) : cs \in {s \in InlineSeqs(n - 1) : s # <<>>}}

RECURSIVE NodeCount(_)
NodeCount(s) ==
    IF s = <<>> THEN 0
    ELSE 1 + NodeCount(Head(s).children) + NodeCount(Tail(s))

\* sequences of top-level nodes made of at most n mdast nodes in total
RECURSIVE TopSeqs(_)
TopSeqs(n) ==
    {<<>>} \cup UNION {{<<x>> \o s : x \in {t \in TopsOfSize(k) : NodeCount(<<t>>) = k},
                                    s \in TopSeqs(n - k)}
                       : k \in 1..n}

Trees == TopSeqs(MaxNodes)

(***************************************************************************)
(* The outcomes of markdown::to_mdast(..) followed by Node::children():    *)
(* Err(message), Ok(node) whose children() is None, Ok(root) with the      *)
(* list of top-level nodes.                                                *)
(***************************************************************************)
ParseResults ==
    {[res |-> "Ok", children |-> "Some", nodes |-> t] : t \in Trees}
    \cup {[res |-> "Ok", children |-> "None", nodes |-> <<>>],
          [res |-> "Err", children |-> "None", nodes |-> <<>>]}

(***************************************************************************)
(* The ADF data model.                                                     *)
(***************************************************************************)
Paragraph_new == [variant |-> "Paragraph", block_type |-> "paragraph", content |-> <<>>]

CodeBlock_new == [variant |-> "CodeBlock", block_type |-> "codeBlock", content |-> <<>>]

Text_new(text) == [variant |-> "Text", block_type |-> "text", text |-> text, marks |-> <<>>]

add_mark(text, mark) == [text EXCEPT !.marks = Append(@, mark)]

LinkMark(url) == [variant |-> "Mark", block_type |-> "link", attrs |-> [k \in {"href"} |-> url]]

(***************************************************************************)
(* The builders.  A sub-builder holds a mutable reference to one element   *)
(* of DocumentBuilder.content; the reference is modelled by the element's  *)
(* index.                                                                  *)
(***************************************************************************)
DocumentBuilder_new == <<>>

\* faulty variant: the sub-builder refers to the first element
LastMutFirst(c) == 1
\* self.content.last_mut(): the element the returned sub-builder refers to
last_mut(c) == Len(c)

PushParagraph(c) == Append(c, Paragraph_new)

PushCodeBlock(c) == Append(c, CodeBlock_new)

\* faulty variant: the text is inserted in front
ParagraphBuilder_textFront(c, p, text) ==
    [c EXCEPT ![p].content = <<Text_new(text)>> \o @]
ParagraphBuilder_text(c, p, text) ==
    [c EXCEPT ![p].content = Append(@, Text_new(text))]

\* faulty variant: the mark is pushed as a node of its own
ParagraphBuilder_linkBareMark(c, p, text, url) ==
    [c EXCEPT ![p].content = Append(Append(@, Text_new(text)), LinkMark(url))]
ParagraphBuilder_link(c, p, text, url) ==
    [c EXCEPT ![p].content = Append(@, add_mark(Text_new(text), LinkMark(url)))]

CodeBlockBuilder_text(c, cb, text) ==
    [c EXCEPT ![cb].content = Append(@, Text_new(text))]

build(c) == [content |-> c, block_type |-> "doc", version |-> 1]

(***************************************************************************)
(* serde_json::to_string(&Document): the JSON value written.  The enum     *)
(* AdfNode is untagged, block_type is renamed to "type", and Text.marks is *)
(* skipped when the vector is empty.                                       *)
(***************************************************************************)
SerMark(m) == [type |-> m.block_type, attrs |-> m.attrs]

SerMarks(ms) == [k \in 1..Len(ms) |-> SerMark(ms[k])]

\* faulty variant: marks is written even when empty
SerTextKeepMarks(t) ==
    [type |-> t.block_type, text |-> t.text, marks |-> SerMarks(t.marks)]
SerText(t) ==
    IF t.marks = <<>>
    THEN [type |-> t.block_type, text |-> t.text]
    ELSE [type |-> t.block_type, text |-> t.text, marks |-> SerMarks(t.marks)]

SerInline(n) ==
    IF n.variant = "Text" THEN SerText(n) ELSE SerMark(n)

SerBlock(b) ==
    IF b.variant \in {"Paragraph", "CodeBlock"}
    THEN [type |-> b.block_type,
          content |-> [k \in 1..Len(b.content) |-> SerInline(b.content[k])]]
    ELSE SerInline(b)

Serialize(doc) ==
    [content |-> [k \in 1..Len(doc.content) |-> SerBlock(doc.content[k])],
     type |-> doc.block_type,
     version |-> doc.version]

(***************************************************************************)
(* from_markdown: the display text of a link and the payload of a code     *)
(* block.                                                                  *)
(***************************************************************************)
\* faulty variant: the first child is used whatever its kind
LinkTextAnyFirst(l) ==
    IF l.children = <<>> THEN l.url ELSE l.children[1].value
LinkText(l) ==
    IF l.children = <<>> THEN l.url
    ELSE IF l.children[1].kind = "text" THEN l.children[1].value ELSE l.url

\* faulty variant: the language tag leaks into the payload
CodeTextLang(c) == IF c.lang # "" THEN c.lang ELSE c.value
CodeText(c) == c.value

(***************************************************************************)
(* State.                                                                  *)
(*   md       result of the parsing collaborator for the input             *)
(*   pc       position in from_markdown / in the run of the builder API    *)
(*   i, j     index of the current top-level node and paragraph child      *)
(*   content  DocumentBuilder.content                                      *)
(*   sub      the live sub-builder: its kind and the element it refers to  *)
(*   result   what the call returned                                       *)
(*   log      history of builder calls, each with the position (i, j) of   *)
(*            the mdast node it was made for                               *)
(***************************************************************************)
VARIABLES md, pc, i, j, content, sub, result, log

vars == <<md, pc, i, j, content, sub, result, log>>

NoSub == [kind |-> "none", ref |-> 0]
NoResult == [kind |-> "none"]

Logged(op) == Append(log, [op |-> op, at |-> <<i, j>>])

Init ==
    /\ md \in ParseResults
    /\ pc = "parse"
    /\ i = 0
    /\ j = 0
    /\ content = DocumentBuilder_new
    /\ sub = NoSub
    /\ result = NoResult
    /\ log = <<>>

(***************************************************************************)
(* from_markdown, one action per step of the walk.                         *)
(***************************************************************************)
\* to_mdast(..).unwrap() on Err
ToMdastUnwrapPanic ==
    /\ pc = "parse"
    /\ md.res = "Err"
    /\ pc' = "done"
    /\ result' = [kind |-> "panic", at |-> "to_mdast"]
    /\ UNCHANGED <<md, i, j, content, sub, log>>

\* md.children().unwrap() on None
ChildrenUnwrapPanic ==
    /\ pc = "parse"
    /\ md.res = "Ok"
    /\ md.children = "None"
    /\ pc' = "done"
    /\ result' = [kind |-> "panic", at |-> "children"]
    /\ UNCHANGED <<md, i, j, content, sub, log>>

ParseOk ==
    /\ pc = "parse"
    /\ md.res = "Ok"
    /\ md.children = "Some"
    /\ pc' = "top"
    /\ i' = 1
    /\ UNCHANGED <<md, j, content, sub, result, log>>

TopParagraph ==
    /\ pc = "top"
    /\ i <= Len(md.nodes)
    /\ md.nodes[i].kind = "paragraph"
    /\ content' = PushParagraph(content)
    /\ sub' = [kind |-> "paragraph", ref |-> last_mut(content')]
    /\ log' = Logged("paragraph")
    /\ pc' = "inline"
    /\ j' = 1
    /\ UNCHANGED <<md, i, result>>

InlineText ==
    /\ pc = "inline"
    /\ j <= Len(md.nodes[i].children)
    /\ LET t == md.nodes[i].children[j] IN
         /\ t.kind = "text"
         /\ content' = ParagraphBuilder_text(content, sub.ref, t.value)
    /\ log' = Logged("text")
    /\ j' = j + 1
    /\ UNCHANGED <<md, pc, i, sub, result>>

\* faulty variant: a link is converted only when all its children are text
InlineLinkStrict ==
    /\ pc = "inline"
    /\ j <= Len(md.nodes[i].children)
    /\ LET l == md.nodes[i].children[j] IN
         /\ l.kind = "link"
         /\ IF \A r \in 1..Len(l.children) : l.children[r].kind = "text"
            THEN /\ content' = ParagraphBuilder_link(content, sub.ref, LinkText(l), l.url)
                 /\ log' = Logged("link")
                 /\ j' = j + 1
                 /\ UNCHANGED <<pc, sub, result>>
            ELSE /\ result' = [kind |-> "Err",
                               msg |-> "Only text nodes are supported for link node",
                               node |-> l, at |-> <<i, j>>]
                 /\ pc' = "done"
                 /\ sub' = NoSub
                 /\ UNCHANGED <<j, content, log>>
    /\ UNCHANGED <<md, i>>

InlineLink ==
    /\ pc = "inline"
    /\ j <= Len(md.nodes[i].children)
    /\ LET l == md.nodes[i].children[j] IN
         /\ l.kind = "link"
         /\ content' = ParagraphBuilder_link(content, sub.ref, LinkText(l), l.url)
    /\ log' = Logged("link")
    /\ j' = j + 1
    /\ UNCHANGED <<md, pc, i, sub, result>>

\* faulty variant: the error reports the enclosing paragraph (the outer
\* binding of node) instead of the offending child
InlineBailOuterNode ==
    /\ pc = "inline"
    /\ j <= Len(md.nodes[i].children)
    /\ md.nodes[i].children[j].kind \notin {"text", "link"}
    /\ result' = [kind |-> "Err",
                  msg |-> "Only text nodes are supported for paragraph node",
                  node |-> md.nodes[i], at |-> <<i, 0>>]
    /\ pc' = "done"
    /\ sub' = NoSub
    /\ UNCHANGED <<md, i, j, content, log>>

InlineBail ==
    /\ pc = "inline"
    /\ j <= Len(md.nodes[i].children)
    /\ LET node == md.nodes[i].children[j] IN
         /\ node.kind \notin {"text", "link"}
         /\ result' = [kind |-> "Err",
                       msg |-> "Only text nodes are supported for paragraph node",
                       node |-> node, at |-> <<i, j>>]
    /\ pc' = "done"
    /\ sub' = NoSub
    /\ UNCHANGED <<md, i, j, content, log>>

ParagraphEnd ==
    /\ pc = "inline"
    /\ j > Len(md.nodes[i].children)
    /\ pc' = "top"
    /\ i' = i + 1
    /\ j' = 0
    /\ sub' = NoSub
    /\ UNCHANGED <<md, content, result, log>>

TopCode ==
    /\ pc = "top"
    /\ i <= Len(md.nodes)
    /\ LET c == md.nodes[i] IN
         /\ c.kind = "code"
         /\ LET pushed == PushCodeBlock(content) IN
              content' = CodeBlockBuilder_text(pushed, last_mut(pushed), CodeText(c))
    /\ log' = Append(Logged("code_block"), [op |-> "text", at |-> <<i, j>>])
    /\ i' = i + 1
    /\ UNCHANGED <<md, pc, j, sub, result>>

\* faulty variant: a node outside the allow-list is skipped
TopBailSkip ==
    /\ pc = "top"
    /\ i <= Len(md.nodes)
    /\ md.nodes[i].kind \notin {"paragraph", "code"}
    /\ i' = i + 1
    /\ UNCHANGED <<md, pc, j, content, sub, result, log>>

TopBail ==
    /\ pc = "top"
    /\ i <= Len(md.nodes)
    /\ LET node == md.nodes[i] IN
         /\ node.kind \notin {"paragraph", "code"}
         /\ result' = [kind |-> "Err",
                       msg |-> "Only paragraph and code nodes are supported",
                       node |-> node, at |-> <<i, j>>]
    /\ pc' = "done"
    /\ UNCHANGED <<md, i, j, content, sub, log>>

Finish ==
    /\ pc = "top"
    /\ i > Len(md.nodes)
    /\ result' = [kind |-> "Ok", json |-> Serialize(build(content))]
    /\ pc' = "done"
    /\ UNCHANGED <<md, i, j, content, sub, log>>

Next ==
    \/ ToMdastUnwrapPanic
    \/ ChildrenUnwrapPanic
    \/ ParseOk
    \/ TopParagraph
    \/ InlineText
    \/ InlineLink
    \/ InlineBail
    \/ ParagraphEnd
    \/ TopCode
    \/ TopBail
    \/ Finish

Spec == Init /\ [][Next]_vars

(***************************************************************************)
(* The builder API on its own: any sequence of calls that the borrow       *)
(* rules admit.  paragraph() and code_block() borrow the document builder  *)
(* mutably, so only the sub-builder returned by the latest of them is      *)
(* usable; build() consumes the document builder.                          *)
(***************************************************************************)
InitBuilder ==
    /\ md = [res |-> "Ok", children |-> "Some", nodes |-> <<>>]
    /\ pc = "api"
    /\ i = 0
    /\ j = 0
    /\ content = DocumentBuilder_new
    /\ sub = NoSub
    /\ result = NoResult
    /\ log = <<>>

CallParagraph ==
    /\ pc = "api"
    /\ Len(log) < MaxOps
    /\ content' = PushParagraph(content)
    /\ sub' = [kind |-> "paragraph", ref |-> last_mut(content')]
    /\ log' = Logged("paragraph")
    /\ UNCHANGED <<md, pc, i, j, result>>

CallCodeBlock ==
    /\ pc = "api"
    /\ Len(log) < MaxOps
    /\ content' = PushCodeBlock(content)
    /\ sub' = [kind |-> "code_block", ref |-> last_mut(content')]
    /\ log' = Logged("code_block")
    /\ UNCHANGED <<md, pc, i, j, result>>

CallParagraphText ==
    /\ pc = "api"
    /\ Len(log) < MaxOps
    /\ sub.kind = "paragraph"
    /\ \E text \in Values :
         content' = ParagraphBuilder_text(content, sub.ref, text)
    /\ log' = Logged("text")
    /\ UNCHANGED <<md, pc, i, j, sub, result>>

CallParagraphLink ==
    /\ pc = "api"
    /\ Len(log) < MaxOps
    /\ sub.kind = "paragraph"
    /\ \E text \in Values \cup Urls, url \in Urls :
         content' = ParagraphBuilder_link(content, sub.ref, text, url)
    /\ log' = Logged("link")
    /\ UNCHANGED <<md, pc, i, j, sub, result>>

CallCodeBlockText ==
    /\ pc = "api"
    /\ Len(log) < MaxOps
    /\ sub.kind = "code_block"
    /\ \E text \in Values :
         content' = CodeBlockBuilder_text(content, sub.ref, text)
    /\ log' = Logged("text")
    /\ UNCHANGED <<md, pc, i, j, sub, result>>

CallBuild ==
    /\ pc = "api"
    /\ pc' = "built"
    /\ sub' = NoSub
    /\ result' = [kind |-> "Document", doc |-> build(content)]
    /\ UNCHANGED <<md, i, j, content, log>>

NextBuilder ==
    \/ CallParagraph
    \/ CallCodeBlock
    \/ CallParagraphText
    \/ CallParagraphLink
    \/ CallCodeBlockText
    \/ CallBuild

SpecBuilder == InitBuilder /\ [][NextBuilder]_vars

(***************************************************************************)
(* Vocabulary of the properties.                                           *)
(***************************************************************************)
\* the parser delivered a list of top-level nodes and the call has returned
Returned == pc = "done" /\ md.res = "Ok" /\ md.children = "Some"

TopIdx == 1..Len(md.nodes)
KidIdx(p) == 1..Len(md.nodes[p].children)

\* top-level node p is outside the allow-list, or is a paragraph holding a
\* direct child outside the allow-list
BadTop(p) == md.nodes[p].kind \notin {"paragraph", "code"}
BadKid(p, q) ==
    /\ md.nodes[p].kind = "paragraph"
    /\ md.nodes[p].children[q].kind \notin {"text", "link"}
Offending(p) == BadTop(p) \/ \E q \in KidIdx(p) : BadKid(p, q)
HasUnsupported == \E p \in TopIdx : Offending(p)

\* a node of an unrecognized kind sits below a link
BadLinkKid(p, q) ==
    /\ md.nodes[p].kind = "paragraph"
    /\ md.nodes[p].children[q].kind = "link"
    /\ \E r \in 1..Len(md.nodes[p].children[q].children) :
         md.nodes[p].children[q].children[r].kind \notin {"text", "link", "paragraph", "code"}
HasBadLinkKid == \E p \in TopIdx : \E q \in KidIdx(p) : BadLinkKid(p, q)

\* position <<p, q>> of the first offender in walk order (q = 0: top level)
FirstOffender ==
    LET p == CHOOSE k \in TopIdx : Offending(k) /\ \A m \in 1..(k - 1) : ~Offending(m)
    IN  IF BadTop(p) THEN <<p, 0>>
        ELSE <<p, CHOOSE q \in KidIdx(p) :
                     BadKid(p, q) /\ \A m \in 1..(q - 1) : ~BadKid(p, m)>>
NodeAt(pos) ==
    IF pos[2] = 0 THEN md.nodes[pos[1]] ELSE md.nodes[pos[1]].children[pos[2]]
Before(a, b) == a[1] < b[1] \/ (a[1] = b[1] /\ a[2] < b[2])

\* the JSON text node that a link mark of destination url and text t has
LinkJson(t, url) ==
    [type |-> "text", text |-> t,
     marks |-> <<[type |-> "link", attrs |-> [href |-> url]]>>]

(***************************************************************************)
(* C1  Allow-list enforcement.  Whenever the parsed tree holds a top-level *)
(* node that is neither paragraph nor code, or a paragraph holds a direct  *)
(* child that is neither text nor link, from_markdown returns an error and *)
(* no JSON document, wherever the node sits.                               *)
(***************************************************************************)
C1_AllowList ==
    (Returned /\ HasUnsupported) =>
        (result.kind = "Err" /\ "json" \notin DOMAIN result)

\* an unsupported inline node behind two supported nodes made the call fail
C1_Witness ==
    /\ Returned
    /\ result.kind = "Err"
    /\ Len(md.nodes) >= 2
    /\ md.nodes[1].kind = "code"
    /\ md.nodes[2].kind = "paragraph"
    /\ Len(md.nodes[2].children) >= 2
    /\ md.nodes[2].children[1].kind = "text"
    /\ md.nodes[2].children[2].kind = "emphasis"

(***************************************************************************)
(* C2  Link display text.  The text node emitted for a link child of a     *)
(* paragraph has the value of the link's first child when that child       *)
(* exists and is a text node, and the link's URL otherwise; it carries     *)
(* exactly one mark, of type link, whose attrs hold exactly the key href   *)
(* with the link's URL.                                                    *)
(***************************************************************************)
C2_LinkDisplayText ==
    \A p \in 1..Len(content) : \A q \in 1..Len(content[p].content) :
        (md.nodes[p].kind = "paragraph" /\ md.nodes[p].children[q].kind = "link") =>
            LET l == md.nodes[p].children[q]
                t == content[p].content[q]
                display == IF Len(l.children) >= 1 /\ l.children[1].kind = "text"
                           THEN l.children[1].value ELSE l.url
            IN  /\ t.variant = "Text"
                /\ t.text = display
                /\ Len(t.marks) = 1
                /\ t.marks[1].block_type = "link"
                /\ DOMAIN t.marks[1].attrs = {"href"}
                /\ t.marks[1].attrs["href"] = l.url
                /\ (result.kind = "Ok" =>
                      result.json.content[p].content[q] = LinkJson(display, l.url))

\* a converted paragraph holding a link with a text child and a link without
\* children
C2_Witness ==
    /\ Returned
    /\ result.kind = "Ok"
    /\ \E p \in TopIdx : \E q1, q2 \in KidIdx(p) :
         /\ md.nodes[p].children[q1].kind = "link"
         /\ Len(md.nodes[p].children[q1].children) >= 1
         /\ md.nodes[p].children[q1].children[1].kind = "text"
         /\ md.nodes[p].children[q2].kind = "link"
         /\ md.nodes[p].children[q2].children = <<>>
         /\ content[p].content[q1].text = md.nodes[p].children[q1].children[1].value
         /\ content[p].content[q2].text = md.nodes[p].children[q2].url

(***************************************************************************)
(* C3  Nesting invariant.  After any sequence of builder calls every       *)
(* element of the document's content is a Paragraph or a CodeBlock, and    *)
(* every element of a block's content is a Text.                           *)
(***************************************************************************)
WellNested(c) ==
    \A p \in 1..Len(c) :
        /\ c[p].variant \in {"Paragraph", "CodeBlock"}
        /\ \A q \in 1..Len(c[p].content) : c[p].content[q].variant = "Text"

C3_Nesting ==
    /\ WellNested(content)
    /\ result.kind = "Document" => WellNested(result.doc.content)

\* a built document with a paragraph holding a link and a filled code block
C3_Witness ==
    /\ pc = "built"
    /\ \E p, r \in 1..Len(result.doc.content) :
         /\ result.doc.content[p].variant = "Paragraph"
         /\ \E q \in 1..Len(result.doc.content[p].content) :
              result.doc.content[p].content[q].marks # <<>>
         /\ result.doc.content[r].variant = "CodeBlock"
         /\ result.doc.content[r].content # <<>>

(***************************************************************************)
(* C4  Mark omission.  In the serialized output a text node has a marks    *)
(* field exactly when it was produced from a link; text appended to a      *)
(* paragraph or a code block has none, and a marks field that is present   *)
(* is a non-empty array.                                                   *)
(***************************************************************************)
C4_MarkOmission ==
    (Returned /\ result.kind = "Ok") =>
        \A p \in 1..Len(result.json.content) :
            \A q \in 1..Len(result.json.content[p].content) :
                LET n == result.json.content[p].content[q]
                    fromLink == /\ log[CHOOSE k \in 1..Len(log) : log[k].at = <<p, q>>].op = "link"
                IN  /\ ("marks" \in DOMAIN n) <=>
                          (md.nodes[p].kind = "paragraph" /\ fromLink)
                    /\ ("marks" \in DOMAIN n) => Len(n.marks) >= 1

\* an output with plain text, a link and a code block
C4_Witness ==
    /\ Returned
    /\ result.kind = "Ok"
    /\ \E p, r \in TopIdx :
         /\ md.nodes[r].kind = "code"
         /\ md.nodes[p].kind = "paragraph"
         /\ \E q1, q2 \in KidIdx(p) :
              /\ md.nodes[p].children[q1].kind = "text"
              /\ md.nodes[p].children[q2].kind = "link"

(***************************************************************************)
(* C5  Order and count preservation.  For an input of supported            *)
(* constructs the output has one block per top-level node, in source       *)
(* order and of the matching type, and each paragraph block has one text   *)
(* node per inline child, in source order.                                 *)
(***************************************************************************)
C5_OrderAndCount ==
    (Returned /\ ~HasUnsupported) =>
        /\ result.kind = "Ok"
        /\ Len(result.json.content) = Len(md.nodes)
        /\ \A p \in TopIdx :
             LET b == result.json.content[p] IN
             IF md.nodes[p].kind = "code"
             THEN b.type = "codeBlock"
             ELSE /\ b.type = "paragraph"
                  /\ Len(b.content) = Len(md.nodes[p].children)
                  /\ \A q \in KidIdx(p) :
                       LET k == md.nodes[p].children[q] IN
                       /\ b.content[q].type = "text"
                       /\ k.kind = "text" => b.content[q].text = k.value
                       /\ k.kind = "link" =>
                            b.content[q].marks[1].attrs["href"] = k.url

\* two blocks of different kinds and a paragraph with two different children
C5_Witness ==
    /\ Returned
    /\ result.kind = "Ok"
    /\ Len(md.nodes) >= 2
    /\ md.nodes[1].kind # md.nodes[2].kind
    /\ \E p \in TopIdx :
         /\ Len(md.nodes[p].children) >= 2
         /\ md.nodes[p].children[1] # md.nodes[p].children[2]

(***************************************************************************)
(* C6  Code conversion.  Every top-level code node yields one codeBlock    *)
(* block holding exactly one text node without marks whose text is the     *)
(* node's raw value, whatever its language tag.                            *)
(***************************************************************************)
C6_CodeConversion ==
    /\ \A p \in 1..Len(content) :
         md.nodes[p].kind = "code" =>
             /\ content[p].variant = "CodeBlock"
             /\ Len(content[p].content) = 1
             /\ content[p].content[1].text = md.nodes[p].value
             /\ content[p].content[1].marks = <<>>
    /\ (Returned /\ result.kind = "Ok") =>
         \A p \in TopIdx :
             md.nodes[p].kind = "code" =>
                 result.json.content[p] =
                     [type |-> "codeBlock",
                      content |-> <<[type |-> "text", text |-> md.nodes[p].value]>>]

\* a converted input with a code node that carries a language tag
C6_Witness ==
    /\ Returned
    /\ result.kind = "Ok"
    /\ \E p \in TopIdx :
         /\ md.nodes[p].kind = "code"
         /\ md.nodes[p].lang = "rs"
         /\ md.nodes[p].value = "a"

C8_NoSilentLoss ==
    (Returned /\ (HasUnsupported \/ HasBadLinkKid)) => result.kind = "Err"

(***************************************************************************)
(* C8, amended.  The conversion fails exactly when a node of an            *)
(* unrecognized kind occurs as a top-level node or as a direct child of a  *)
(* top-level paragraph; the children of a link are not checked, so an      *)
(* input whose only unrecognized nodes are below links converts.           *)
(***************************************************************************)
C8_FailsIffOutsideLinks ==
    Returned =>
        /\ (result.kind = "Err") <=> HasUnsupported
        /\ (result.kind = "Ok") <=> ~HasUnsupported

\* an input with an unrecognized node below a link was converted
C8_Witness ==
    /\ Returned
    /\ result.kind = "Ok"
    /\ HasBadLinkKid

(***************************************************************************)
(* C9  Fail-fast on the first offender.  When the conversion fails, the    *)
(* error names the first unsupported node in walk order, and every builder *)
(* call that was made was made for a node before it.                       *)
(***************************************************************************)
C9_FailFast ==
    (Returned /\ result.kind = "Err") =>
        /\ HasUnsupported
        /\ result.at = FirstOffender
        /\ result.node = NodeAt(FirstOffender)
        /\ \A k \in 1..Len(log) : Before(log[k].at, FirstOffender)

\* a failed conversion of an input with two offenders, after builder calls
C9_Witness ==
    /\ Returned
    /\ result.kind = "Err"
    /\ log # <<>>
    /\ \E p \in TopIdx : \E q \in KidIdx(p) :
         /\ BadKid(p, q)
         /\ \E r \in TopIdx : r > p /\ BadTop(r)
         /\ NodeAt(<<p, q>>).kind # md.nodes[p + 1].kind

(***************************************************************************)
(* C10  Scoped sub-builder frame.  A text or link insertion through the    *)
(* sub-builder of the latest paragraph() / code_block() call appends one   *)
(* node at the end of the last block and changes nothing else;             *)
(* paragraph() and code_block() append one empty block and change no       *)
(* existing block.                                                         *)
(***************************************************************************)
C10_Step ==
    Len(log') = Len(log) + 1 =>
        LET op == log'[Len(log')].op
            n == Len(content)
        IN  IF op \in {"paragraph", "code_block"}
            THEN /\ Len(content') = n + 1
                 /\ \A k \in 1..n : content'[k] = content[k]
                 /\ content'[n + 1].content = <<>>
                 /\ content'[n + 1].variant =
                      (IF op = "paragraph" THEN "Paragraph" ELSE "CodeBlock")
            ELSE /\ n >= 1
                 /\ Len(content') = n
                 /\ \A k \in 1..(n - 1) : content'[k] = content[k]
                 /\ content'[n].variant = content[n].variant
                 /\ Len(content'[n].content) = Len(content[n].content) + 1
                 /\ \A k \in 1..Len(content[n].content) :
                      content'[n].content[k] = content[n].content[k]

C10_Frame == [][C10_Step]_vars

\* two blocks, the later one filled by two insertions
C10_Witness ==
    /\ pc = "api"
    /\ Len(content) = 2
    /\ content[1].content = <<>>
    /\ Len(content[2].content) = 2

====
